---- MODULE Spec2Model ----
(***************************************************************************)
(* The note conversion pipeline of internal/convert.go: NewConverter,      *)
(* Converter.Convert and its stages, run one stage per step on one         *)
(* Converter whose sticky err field outlives each call.                    *)
(*                                                                         *)
(* Text ([]byte, string) is a sequence of tokens.  A token is one          *)
(* character ("\n", " ", "H", ...) or a chunk of literal text that holds   *)
(* no newline and no leading or trailing blank other than the ones written *)
(* in it ("# ", "date: '", "url: ").                                       *)
(***************************************************************************)
EXTENDS Integers, Sequences, FiniteSets, TLC

\* ---------------------------------------------------------------- bounds
MaxRes == 2        \* attachments per note
MaxTags == 2       \* tags per note
MaxTpl == 2        \* tokens in a tag template handed to NewConverter
MaxCalls == 2      \* Convert calls made on the Converter
MaxClock == 4      \* last reading of the wall clock

\* ------------------------------------------------------------ text helpers
NL == "\n"

IsSpace(ch) == ch \in {" ", NL, "\t"}

RECURSIVE Join(_, _)
\* strings.Join
Join(ss, sep) ==
  IF ss = <<>> THEN <<>>
  ELSE IF Len(ss) = 1 THEN ss[1]
  ELSE ss[1] \o sep \o Join(Tail(ss), sep)

RECURSIVE LeadingNewlines(_)
\* The length of the run of newlines s starts with.
LeadingNewlines(s) ==
  IF s = <<>> \/ Head(s) # NL THEN 0 ELSE 1 + LeadingNewlines(Tail(s))

RECURSIVE ReplaceNewlineRuns(_)
\* regexp.MustCompile("\n{3,}").ReplaceAllLiteral(s, "\n\n"): every maximal
\* run of three or more newlines becomes two.
ReplaceNewlineRuns(s) ==
  IF s = <<>> THEN <<>>
  ELSE LET k == LeadingNewlines(s)
       IN  IF k >= 3 THEN <<NL, NL>> \o ReplaceNewlineRuns(SubSeq(s, k + 1, Len(s)))
           ELSE IF k >= 1 THEN SubSeq(s, 1, k) \o ReplaceNewlineRuns(SubSeq(s, k + 1, Len(s)))
           ELSE <<Head(s)>> \o ReplaceNewlineRuns(Tail(s))

RECURSIVE TrimRightNewlines(_)
\* bytes.TrimRight(s, "\n")
TrimRightNewlines(s) ==
  IF s # <<>> /\ s[Len(s)] = NL THEN TrimRightNewlines(SubSeq(s, 1, Len(s) - 1)) ELSE s

RECURSIVE TrimLeftSpace(_)
TrimLeftSpace(s) ==
  IF s # <<>> /\ IsSpace(Head(s)) THEN TrimLeftSpace(Tail(s)) ELSE s

RECURSIVE TrimRightSpace(_)
TrimRightSpace(s) ==
  IF s # <<>> /\ IsSpace(s[Len(s)]) THEN TrimRightSpace(SubSeq(s, 1, Len(s) - 1)) ELSE s

\* strings.TrimSpace: the template function "trim"
TrimSpace(s) == TrimRightSpace(TrimLeftSpace(s))

RECURSIVE QuoteBody(_)
QuoteBody(s) ==
  IF s = <<>> THEN <<>>
  ELSE (CASE Head(s) = NL -> <<"\\", "n">>
          [] Head(s) = "\t" -> <<"\\", "t">>
          [] Head(s) = "\"" -> <<"\\", "\"">>
          [] Head(s) = "\\" -> <<"\\", "\\">>
          [] OTHER -> <<Head(s)>>) \o QuoteBody(Tail(s))

\* fmt.Sprintf("%q", text): the template function "quote"
Quote(s) == <<"\"">> \o QuoteBody(s) \o <<"\"">>

\* The longest run of consecutive newlines in s.
RECURSIVE MaxNewlineRun(_)
MaxNewlineRun(s) ==
  IF s = <<>> THEN 0
  ELSE LET k == LeadingNewlines(s)
           r == MaxNewlineRun(SubSeq(s, (IF k = 0 THEN 1 ELSE k) + 1, Len(s)))
       IN  IF k > r THEN k ELSE r

HasPrefix(s, t) == Len(s) >= Len(t) /\ SubSeq(s, 1, Len(t)) = t

\* All sequences over S of length at most n.
SeqUpTo(S, n) == UNION {[1..k -> S] : k \in 0..n}

\* --------------------------------------------------------- configuration
\* The tag substitution token (named in NewConverter's error message).
tagToken == "{{tag}}"

\* The template NewConverter substitutes for an empty one: the token between
\* two backquotes (a backquote is written BQ here).
DefaultTagTemplate == <<"BQ", tagToken, "BQ">>

RECURSIVE Count(_, _)
\* strings.Count(s, tok) for a token that cannot overlap itself.
Count(s, tok) ==
  IF s = <<>> THEN 0 ELSE (IF Head(s) = tok THEN 1 ELSE 0) + Count(Tail(s), tok)

\* The flags a caller hands to NewConverter: enableFrontMatter,
\* enableHighlights, escapeSpecialChars.
FlagChoices == {<<FALSE, FALSE, FALSE>>, <<TRUE, TRUE, TRUE>>}

\* The tag templates a caller hands to NewConverter.
TagTemplates == SeqUpTo({tagToken, "#"}, MaxTpl)

\* The values of Converter.FrontMatterTemplate: the constant of the package,
\* or a text the caller stored in the exported field that text/template
\* cannot parse, or that parses and fails in Execute.
DefaultFrontMatter == "FrontMatterTemplate"
FrontMatterTemplates == {DefaultFrontMatter, "{{ unparsable", "{{ .Missing }}"}

ParsesTemplate(t) == t # "{{ unparsable"
ExecutesTemplate(t) == t = DefaultFrontMatter

\* ------------------------------------------------------------------ errors
\* An error value is told from every other by the stage that made it, the
\* attachment it is about and the call it was made in.
NoErr == [kind |-> "nil", at |-> 0, call |-> 0]
DecodeErr(i, n) == [kind |-> "decode", at |-> i, call |-> n]
RenderErr(n) == [kind |-> "render", at |-> 0, call |-> n]

NoConfigErr == "nil"
TagFormatErr == "tag format should contain exactly one {{tag}} template variable"

\* ------------------------------------------------------------------- notes
\* io.ReadAll(decoder(data)) on the payloads of the model: two encodings of
\* the bytes "A", one of "B", and anything else does not decode.
Decode(data) ==
  CASE data = "QQ==" -> [ok |-> TRUE, bytes |-> <<"A">>]
    [] data = "QQ==\n" -> [ok |-> TRUE, bytes |-> <<"A">>]
    [] data = "Qg==" -> [ok |-> TRUE, bytes |-> <<"B">>]
    [] OTHER -> [ok |-> FALSE, bytes |-> <<>>]

\* fmt.Sprintf("%x", md5.Sum(p)), taken as collision-free.
Md5Hex(p) == <<"md5">> \o p

isImage(mime) == mime \in {"image/png", "image/jpeg"}

\* The base name and extension of an attachment: those of its declared file
\* name, or, without one, a name and an extension guessed from the MIME type.
name(r) ==
  IF r.FileName = <<>>
    THEN <<(IF isImage(r.Mime) THEN <<"image">> ELSE <<"file">>),
           (IF r.Mime = "image/png" THEN <<".png">> ELSE <<".pdf">>)>>
    ELSE <<SubSeq(r.FileName, 1, Len(r.FileName) - 1), <<r.FileName[Len(r.FileName)]>> >>

Attachments ==
  { [Data |-> "QQ==",   Mime |-> "image/png",       FileName |-> <<"a", ".png">>],
    [Data |-> "QQ==\n", Mime |-> "application/pdf", FileName |-> <<"b", ".pdf">>],
    [Data |-> "Qg==",   Mime |-> "image/png",       FileName |-> <<"a", ".png">>],
    [Data |-> "Qg==",   Mime |-> "application/pdf", FileName |-> <<"a", "-", "1", ".png">>],
    [Data |-> "Q!",     Mime |-> "image/png",       FileName |-> <<>>] }

\* Created and Updated texts and what time.Parse(evernoteDateFormat, _) makes
\* of them.  An instant is a number: 0 is the zero time.Time, 1 and 2 are the
\* two parsed dates, the wall clock reads 3 and later.
DateTexts == {"20180109T173725Z", "20190215T080000Z", "2018-01-09", ""}

ParseTime(text) ==
  CASE text = "20180109T173725Z" -> [ok |-> TRUE, t |-> 1]
    [] text = "20190215T080000Z" -> [ok |-> TRUE, t |-> 2]
    [] OTHER -> [ok |-> FALSE, t |-> 0]

ClockStart == 3

\* time.Time.Format(dateFrontMatterFormat)
FormatTime(t) ==
  CASE t = 0 -> "0001-01-01 00:00:00 +0000"
    [] t = 1 -> "2018-01-09 17:37:25 +0000"
    [] t = 2 -> "2019-02-15 08:00:00 +0000"
    [] OTHER -> ToString(t)

\* Note bodies (enex.Note.Content), as markup tokens.
HtmlBodies ==
  { <<"W">>,
    <<"W", "<br>", "<br>", "<br>", "<a></a>", "*", "<br>", "<br>">>,
    <<"W", "<table">> }

Titles == { <<"H">>, <<>>, <<" ", "H", NL, NL, NL, "\"", " ">> }

TagNames == { <<"t">>, <<NL, NL, NL>> }

NoAttributes ==
  [SourceUrl |-> <<>>, Latitude |-> <<>>, Longitude |-> <<>>, Altitude |-> <<>>, Source |-> <<>>]

AttributeBags ==
  [SourceUrl : {<<>>, <<"u">>}, Latitude : {<<>>, <<"1">>}, Longitude : {<<>>, <<"2">>},
   Altitude : {<<>>, <<"3">>}, Source : {<<>>, <<"s">>}]
  \cup { [NoAttributes EXCEPT !.SourceUrl = <<" ">>],
         [NoAttributes EXCEPT !.Source = <<" ", "s", NL>>],
         [NoAttributes EXCEPT !.Latitude = <<NL, NL, NL>>] }

PlainNote ==
  [Title |-> <<"H">>, Content |-> <<"W">>, Resources |-> <<>>,
   Created |-> "20180109T173725Z", Updated |-> "20190215T080000Z",
   Tags |-> <<>>, Attributes |-> NoAttributes]

\* The cnt arguments handed to Convert.
Counters == {0, 1}

\* The notes handed to Convert: each family varies some fields of a plain note.
AttachmentNotes ==
  { [PlainNote EXCEPT !.Resources = r] : r \in SeqUpTo(Attachments, MaxRes) \ {<<>>} }
  \cup { [PlainNote EXCEPT !.Resources = <<r>>, !.Content = <<"W", "<table">>] :
           r \in Attachments }

\* Notes with one attachment more, of the two whose names differ by what
\* looks like the suffix of a repeat.
SameNameAttachments == { r \in Attachments : r.Data = "Qg==" }

LongAttachmentNotes ==
  { [PlainNote EXCEPT !.Resources = r] : r \in [1..(MaxRes + 1) -> SameNameAttachments] }

TextNotes ==
  { [PlainNote EXCEPT !.Title = t, !.Tags = g, !.Content = b] :
      t \in Titles, g \in SeqUpTo(TagNames, MaxTags), b \in HtmlBodies }

AttributeNotes == { [PlainNote EXCEPT !.Attributes = a] : a \in AttributeBags }

DateNotes == { [PlainNote EXCEPT !.Created = d, !.Updated = e] : d, e \in DateTexts }

Notes ==
  AttachmentNotes \cup LongAttachmentNotes \cup TextNotes \cup AttributeNotes \cup DateNotes

\* The arguments of a Convert call; cnt is read for attachments alone.
ConvertInputs ==
  (AttachmentNotes \X Counters) \cup ((Notes \ AttachmentNotes) \X {0})

\* ------------------------------------------------------------------- state
VARIABLES
  pc,       \* "start", "configError", "idle", the stage Convert runs next, "return", "panic"
  c,        \* the Converter
  newErr,   \* the error NewConverter returned
  tagTemplateArg, \* the tagTemplate argument NewConverter was given
  note,     \* the enex.Note of the running call
  cnt,      \* the cnt argument of that call
  md,       \* the markdown.Note of that call
  calls,    \* the number of Convert calls begun
  clock,    \* the wall clock
  shared,   \* concurrent calls: whether the two calls use one Converter
  convs,    \* concurrent calls: the Converters
  pcs,      \* concurrent calls: "idle", the stage each call runs next, "return", "panic"
  notes,    \* concurrent calls: the enex.Note of each call
  mds       \* concurrent calls: the markdown.Note of each call

\* The state of a caller that makes one call after the other.
seqVars == <<pc, c, newErr, tagTemplateArg, note, cnt, md, calls, clock>>

\* The state of a caller that makes two calls at once.
concVars == <<shared, convs, pcs, notes, mds>>

vars ==
  <<pc, c, newErr, tagTemplateArg, note, cnt, md, calls, clock,
    shared, convs, pcs, notes, mds>>

NilConverter ==
  [TagTemplate |-> <<>>, EnableHighlights |-> FALSE, EscapeSpecialChars |-> FALSE,
   EnableFrontMatter |-> FALSE, FrontMatterTemplate |-> "", err |-> NoErr]

EmptyMap == [k \in {} |-> 0]

Put(m, k, v) == [x \in DOMAIN m \cup {k} |-> IF x = k THEN v ELSE m[x]]

\* new(markdown.Note) with an empty Media map
NewNote == [Content |-> <<>>, Media |-> EmptyMap, CTime |-> 0, MTime |-> 0]

\* The two calls a caller makes at once.
Calls == {1, 2}

\* No Convert call has begun.
InitSeq ==
  /\ pc = "start"
  /\ c = NilConverter
  /\ newErr = NoConfigErr
  /\ tagTemplateArg = <<>>
  /\ note = PlainNote
  /\ cnt = 0
  /\ md = NewNote
  /\ calls = 0
  /\ clock = ClockStart

Init ==
  /\ InitSeq
  /\ shared = FALSE
  /\ convs = [p \in Calls |-> NilConverter]
  /\ pcs = [p \in Calls |-> "idle"]
  /\ notes = [p \in Calls |-> PlainNote]
  /\ mds = [p \in Calls |-> NewNote]

\* ------------------------------------------------------------ NewConverter
\* NewConverter gone wrong: only a template without the token is refused.
NewConverterAtLeastOne(tagTemplate, enableFrontMatter, enableHighlights, escapeSpecialChars) ==
  LET t == IF tagTemplate = <<>> THEN DefaultTagTemplate ELSE tagTemplate
  IN  IF Count(t, tagToken) = 0
        THEN [c |-> NilConverter, err |-> TagFormatErr]
        ELSE [c |-> [TagTemplate |-> t,
                     EnableHighlights |-> enableHighlights,
                     EscapeSpecialChars |-> escapeSpecialChars,
                     EnableFrontMatter |-> enableFrontMatter,
                     FrontMatterTemplate |-> DefaultFrontMatter,
                     err |-> NoErr],
              err |-> NoConfigErr]

NewConverter(tagTemplate, enableFrontMatter, enableHighlights, escapeSpecialChars) ==
  LET t == IF tagTemplate = <<>> THEN DefaultTagTemplate ELSE tagTemplate
  IN  IF Count(t, tagToken) # 1
        THEN [c |-> NilConverter, err |-> TagFormatErr]
        ELSE [c |-> [TagTemplate |-> t,
                     EnableHighlights |-> enableHighlights,
                     EscapeSpecialChars |-> escapeSpecialChars,
                     EnableFrontMatter |-> enableFrontMatter,
                     FrontMatterTemplate |-> DefaultFrontMatter,
                     err |-> NoErr],
              err |-> NoConfigErr]

Construct ==
  /\ pc = "start"
  /\ \E t \in TagTemplates, f \in FlagChoices :
       LET r == NewConverter(t, f[1], f[2], f[3])
       IN  /\ c' = r.c
           /\ newErr' = r.err
           /\ tagTemplateArg' = t
           /\ pc' = IF r.err = NoConfigErr THEN "idle" ELSE "configError"
  /\ UNCHANGED <<note, cnt, md, calls, clock, concVars>>

\* The caller stores another template in the exported field before the first
\* conversion.
SetFrontMatterTemplate ==
  /\ pc = "idle"
  /\ calls = 0
  /\ \E t \in FrontMatterTemplates \ {c.FrontMatterTemplate} :
       c' = [c EXCEPT !.FrontMatterTemplate = t]
  /\ UNCHANGED <<pc, newErr, tagTemplateArg, note, cnt, md, calls, clock, concVars>>

\* ----------------------------------------------------------------- Convert
\* stageAfter gone wrong: the title is prepended before the tag list.
stageAfterTitleFirst(stage, enableFrontMatter) ==
  CASE stage = "mapResources" -> "normalizeHTML"
    [] stage = "normalizeHTML" -> "toMarkdown"
    [] stage = "toMarkdown" -> "prependTitle"
    [] stage = "prependTitle" -> "prependTags"
    [] stage = "prependTags" -> "trimSpaces"
    [] stage = "trimSpaces" -> "addDates"
    [] stage = "addDates" -> (IF enableFrontMatter THEN "addFrontMatter" ELSE "return")
    [] OTHER -> "return"

\* The order of the stages in Convert's body.
stageAfter(stage, enableFrontMatter) ==
  CASE stage = "mapResources" -> "normalizeHTML"
    [] stage = "normalizeHTML" -> "toMarkdown"
    [] stage = "toMarkdown" -> "prependTags"
    [] stage = "prependTags" -> "prependTitle"
    [] stage = "prependTitle" -> "trimSpaces"
    [] stage = "trimSpaces" -> "addDates"
    [] stage = "addDates" -> (IF enableFrontMatter THEN "addFrontMatter" ELSE "return")
    [] OTHER -> "return"

\* Convert's entry: a fresh markdown.Note for the note and counter given.
Convert ==
  /\ pc = "idle"
  /\ calls < MaxCalls
  /\ \E arg \in ConvertInputs :
       /\ note' = arg[1]
       /\ cnt' = arg[2]
  /\ md' = NewNote
  /\ calls' = calls + 1
  /\ pc' = "mapResources"
  /\ UNCHANGED <<c, newErr, tagTemplateArg, clock, concVars>>

\* mediaKey gone wrong: the entry stored under the attachment's index.
mediaKeyByIndex(r, i, p) == <<ToString(i)>>

\* The key an attachment's entry is stored under in md.Media.
mediaKey(r, i, p) == Md5Hex(p)

\* resourceType gone wrong: every attachment a plain file.
resourceTypeAlwaysFile(mime) == "File"

\* The kind of an attachment's entry.
resourceType(mime) == IF isImage(mime) THEN "Image" ELSE "File"

\* storedName gone wrong: the counter of the call left out.
storedNameNoCounter(cntp, i, ext) == <<ToString(i)>> \o ext

\* The filename an attachment's entry is stored with.
storedName(cntp, i, ext) == <<ToString(cntp), "_", ToString(i)>> \o ext

RECURSIVE mapResourcesLoop(_, _, _, _, _)
\* The loop of mapResources from attachment i (counted from 0) on.  st holds
\* c.err, md.Media, the names map and the display name of every attachment
\* gone through.
mapResourcesLoop(st, r, i, cntp, n) ==
  IF i >= Len(r) THEN st
  ELSE
    LET p == Decode(r[i + 1].Data)
    IN  IF ~p.ok THEN [st EXCEPT !.err = DecodeErr(i, n)]
        ELSE
          LET rType == resourceType(r[i + 1].Mime)
              nm    == name(r[i + 1])[1]
              ext   == name(r[i + 1])[2]
              exist == (nm \o ext) \in DOMAIN st.names
              shown == IF exist THEN nm \o <<"-", ToString(st.names[nm \o ext])>> ELSE nm
              mdr   == [Name |-> storedName(cntp, i, ext),
                        Type |-> rType,
                        Content |-> p.bytes]
          IN  mapResourcesLoop(
                [err |-> NoErr,
                 Media |-> Put(st.Media, mediaKey(r[i + 1], i, p.bytes), mdr),
                 names |-> Put(st.names, nm \o ext,
                               IF exist THEN st.names[nm \o ext] + 1 ELSE 1),
                 display |-> Append(st.display, shown)],
                r, i + 1, cntp, n)

\* mapResourcesResult gone wrong: c.err is not assigned.
mapResourcesResultKeepErr(err, r, media, cntp, n) ==
  [mapResourcesLoop([err |-> err, Media |-> media, names |-> EmptyMap, display |-> <<>>],
                    r, 0, cntp, n) EXCEPT !.err = err]

mapResourcesResult(err, r, media, cntp, n) ==
  mapResourcesLoop([err |-> err, Media |-> media, names |-> EmptyMap, display |-> <<>>],
                   r, 0, cntp, n)

mapResources ==
  /\ pc = "mapResources"
  /\ LET st == mapResourcesResult(c.err, note.Resources, md.Media, cnt, calls)
     IN  /\ c' = [c EXCEPT !.err = st.err]
         /\ md' = [md EXCEPT !.Media = st.Media]
  /\ pc' = stageAfter(pc, c.EnableFrontMatter)
  /\ UNCHANGED <<newErr, tagTemplateArg, note, cnt, calls, clock, concVars>>

\* The rewrite chain on a body: empty anchors are dropped.
RewriteHTML(html) == SelectSeq(html, LAMBDA tok : tok # "<a></a>")

normalizeHTML ==
  /\ pc = "normalizeHTML"
  /\ note' = IF c.err # NoErr THEN note
             ELSE [note EXCEPT !.Content = RewriteHTML(note.Content)]
  /\ pc' = stageAfter(pc, c.EnableFrontMatter)
  /\ UNCHANGED <<c, newErr, tagTemplateArg, cnt, md, calls, clock, concVars>>

RECURSIVE RenderTokens(_, _)
RenderTokens(html, escapeSpecialChars) ==
  IF html = <<>> THEN <<>>
  ELSE (CASE Head(html) = "<br>" -> <<NL>>
          [] Head(html) = "<a></a>" -> <<"[]()">>
          [] Head(html) = "*" -> (IF escapeSpecialChars THEN <<"\\", "*">> ELSE <<"*">>)
          [] OTHER -> <<Head(html)>>) \o RenderTokens(Tail(html), escapeSpecialChars)

\* markdown.Convert: the rendered bytes, or an error for a body whose
\* structure is broken.
MarkdownConvert(html, enableHighlights, escapeSpecialChars) ==
  IF \E i \in 1..Len(html) : html[i] = "<table"
    THEN [ok |-> FALSE, bytes |-> <<>>]
    ELSE [ok |-> TRUE, bytes |-> RenderTokens(html, escapeSpecialChars)]

toMarkdown ==
  /\ pc = "toMarkdown"
  /\ IF c.err # NoErr THEN UNCHANGED <<c, md>>
     ELSE LET r == MarkdownConvert(note.Content, c.EnableHighlights, c.EscapeSpecialChars)
          IN  IF ~r.ok
                THEN /\ c' = [c EXCEPT !.err = RenderErr(calls)]
                     /\ md' = md
                ELSE /\ c' = [c EXCEPT !.err = NoErr]
                     /\ md' = [md EXCEPT !.Content = r.bytes]
  /\ pc' = stageAfter(pc, c.EnableFrontMatter)
  /\ UNCHANGED <<newErr, tagTemplateArg, note, cnt, calls, clock, concVars>>

\* strings.Replace(s, tok, by, 1)
ReplaceFirst(s, tok, by) ==
  IF \E i \in 1..Len(s) : s[i] = tok
    THEN LET i == CHOOSE j \in 1..Len(s) : s[j] = tok /\ \A k \in 1..(j - 1) : s[k] # tok
         IN  SubSeq(s, 1, i - 1) \o by \o SubSeq(s, i + 1, Len(s))
    ELSE s

tagList(n, tagTemplate, separator, trailingBreak) ==
  IF n.Tags = <<>> THEN <<>>
  ELSE Join([i \in 1..Len(n.Tags) |-> ReplaceFirst(tagTemplate, tagToken, n.Tags[i])], separator)
       \o (IF trailingBreak THEN <<NL, NL>> ELSE <<>>)

prependTags ==
  /\ pc = "prependTags"
  /\ md' = IF c.err # NoErr THEN md
           ELSE [md EXCEPT !.Content = tagList(note, c.TagTemplate, <<" ">>, TRUE) \o @]
  /\ pc' = stageAfter(pc, c.EnableFrontMatter)
  /\ UNCHANGED <<c, newErr, tagTemplateArg, note, cnt, calls, clock, concVars>>

prependTitle ==
  /\ pc = "prependTitle"
  /\ md' = IF c.err # NoErr THEN md
           ELSE [md EXCEPT !.Content = <<"# ">> \o note.Title \o <<NL, NL>> \o @]
  /\ pc' = stageAfter(pc, c.EnableFrontMatter)
  /\ UNCHANGED <<c, newErr, tagTemplateArg, note, cnt, calls, clock, concVars>>

trimSpacesResult(content) == Append(TrimRightNewlines(ReplaceNewlineRuns(content)), NL)

trimSpaces ==
  /\ pc = "trimSpaces"
  /\ md' = IF c.err # NoErr THEN md
           ELSE [md EXCEPT !.Content = trimSpacesResult(@)]
  /\ pc' = stageAfter(pc, c.EnableFrontMatter)
  /\ UNCHANGED <<c, newErr, tagTemplateArg, note, cnt, calls, clock, concVars>>

\* convertEvernoteDate gone wrong: the zero time for a text that does not parse.
convertEvernoteDateZero(evernoteDate, now) == ParseTime(evernoteDate).t

\* convertEvernoteDate, with the reading time.Now() gives if it is asked
convertEvernoteDate(evernoteDate, now) ==
  IF ParseTime(evernoteDate).ok THEN ParseTime(evernoteDate).t ELSE now

\* The readings time.Now() can give after the reading last: the clock is
\* read when the text does not parse, and it never runs backwards.
Readings(evernoteDate, last) ==
  IF ParseTime(evernoteDate).ok THEN {last} ELSE last..MaxClock

addDates ==
  /\ pc = "addDates"
  /\ IF c.err # NoErr THEN UNCHANGED <<md, clock>>
     ELSE \E t1 \in Readings(note.Created, clock) :
            \E t2 \in Readings(note.Updated, t1) :
              /\ md' = [md EXCEPT !.CTime = convertEvernoteDate(note.Created, t1),
                                  !.MTime = convertEvernoteDate(note.Updated, t2)]
              /\ clock' = t2
  /\ pc' = stageAfter(pc, c.EnableFrontMatter)
  /\ UNCHANGED <<c, newErr, tagTemplateArg, note, cnt, calls, concVars>>

\* optionalLine gone wrong: the line is written for an empty field too.
optionalLineAlways(field, key, value) == <<NL, key>> \o value

\* {{- if .X }} / key: {{ .X -}} / {{- end -}}: a line for a field that is
\* not empty, and nothing for one that is.
optionalLine(field, key, value) == IF field # <<>> THEN <<NL, key>> \o value ELSE <<>>

\* The text FrontMatterTemplate (the constant) executes to.
ExecuteFrontMatter(data) ==
  <<"---", NL, "date: '", data.CTime, "'", NL, "updated_at: '", data.MTime, "'", NL, "title: ">>
  \o Quote(TrimSpace(data.Title))
  \o optionalLine(data.TagList, "tags: [ ", data.TagList \o <<" ]">>)
  \o optionalLine(data.Attributes.SourceUrl, "url: ", TrimSpace(data.Attributes.SourceUrl))
  \o optionalLine(data.Attributes.Latitude, "latitude: ", data.Attributes.Latitude)
  \o optionalLine(data.Attributes.Longitude, "longitude: ", data.Attributes.Longitude)
  \o optionalLine(data.Attributes.Altitude, "altitude: ", data.Attributes.Altitude)
  \o optionalLine(data.Attributes.Source, "source: ", TrimSpace(data.Attributes.Source))
  \o <<NL, NL, "---", NL, NL>>

\* The data addFrontMatter hands to the template.
frontMatterData(n, m) ==
  [CTime |-> FormatTime(m.CTime),
   MTime |-> FormatTime(m.MTime),
   Title |-> n.Title,
   Attributes |-> n.Attributes,
   TagList |-> tagList(n, <<"'", tagToken, "'">>, <<",", " ">>, FALSE)]

\* What addFrontMatter does: "panic", or the content it leaves.
addFrontMatterResult(conv, n, m) ==
  IF ~ParsesTemplate(conv.FrontMatterTemplate) \/ ~ExecutesTemplate(conv.FrontMatterTemplate)
    THEN [panic |-> TRUE, content |-> m.Content]
    ELSE [panic |-> FALSE, content |-> ExecuteFrontMatter(frontMatterData(n, m)) \o m.Content]

addFrontMatter ==
  /\ pc = "addFrontMatter"
  /\ LET r == addFrontMatterResult(c, note, md)
     IN  /\ md' = [md EXCEPT !.Content = r.content]
         /\ pc' = IF r.panic THEN "panic" ELSE stageAfter(pc, c.EnableFrontMatter)
  /\ UNCHANGED <<c, newErr, tagTemplateArg, note, cnt, calls, clock, concVars>>

\* return md, c.err: the call is over, and what it held goes with it.  The
\* values returned are md and c.err as they are when pc = "return".
Return ==
  /\ pc = "return"
  /\ pc' = "idle"
  /\ note' = PlainNote
  /\ cnt' = 0
  /\ md' = NewNote
  /\ UNCHANGED <<c, newErr, tagTemplateArg, calls, clock, concVars>>

Next ==
  \/ Construct
  \/ SetFrontMatterTemplate
  \/ Convert
  \/ mapResources
  \/ normalizeHTML
  \/ toMarkdown
  \/ prependTags
  \/ prependTitle
  \/ trimSpaces
  \/ addDates
  \/ addFrontMatter
  \/ Return

Spec == Init /\ [][Next]_vars

\* -------------------------------------------------- two calls at once
\* What a stage of Convert leaves of the Converter, the note and the
\* document of call k; now1 and now2 are the readings of time.Now().
stageResult(stage, conv, n, m, cntp, k, now1, now2) ==
  LET skip == [c |-> conv, note |-> n, md |-> m, panic |-> FALSE]
  IN  CASE stage = "mapResources" ->
             LET st == mapResourcesResult(conv.err, n.Resources, m.Media, cntp, k)
             IN  [skip EXCEPT !.c = [conv EXCEPT !.err = st.err],
                              !.md = [m EXCEPT !.Media = st.Media]]
        [] stage = "addFrontMatter" ->
             LET r == addFrontMatterResult(conv, n, m)
             IN  [skip EXCEPT !.md = [m EXCEPT !.Content = r.content], !.panic = r.panic]
        [] stage \notin {"mapResources", "addFrontMatter"} /\ conv.err # NoErr -> skip
        [] stage = "normalizeHTML" /\ conv.err = NoErr ->
             [skip EXCEPT !.note = [n EXCEPT !.Content = RewriteHTML(n.Content)]]
        [] stage = "toMarkdown" /\ conv.err = NoErr ->
             LET r == MarkdownConvert(n.Content, conv.EnableHighlights, conv.EscapeSpecialChars)
             IN  IF ~r.ok
                   THEN [skip EXCEPT !.c = [conv EXCEPT !.err = RenderErr(k)]]
                   ELSE [skip EXCEPT !.c = [conv EXCEPT !.err = NoErr],
                                     !.md = [m EXCEPT !.Content = r.bytes]]
        [] stage = "prependTags" /\ conv.err = NoErr ->
             [skip EXCEPT !.md =
                [m EXCEPT !.Content = tagList(n, conv.TagTemplate, <<" ">>, TRUE) \o @]]
        [] stage = "prependTitle" /\ conv.err = NoErr ->
             [skip EXCEPT !.md = [m EXCEPT !.Content = <<"# ">> \o n.Title \o <<NL, NL>> \o @]]
        [] stage = "trimSpaces" /\ conv.err = NoErr ->
             [skip EXCEPT !.md = [m EXCEPT !.Content = trimSpacesResult(@)]]
        [] stage = "addDates" /\ conv.err = NoErr ->
             [skip EXCEPT !.md = [m EXCEPT !.CTime = convertEvernoteDate(n.Created, now1),
                                           !.MTime = convertEvernoteDate(n.Updated, now2)]]

\* One call after the other runs the stages stageResult describes.
StagesAgree ==
  [][(pc \notin {"start", "configError", "idle", "return", "panic"} /\ pc' # pc) =>
       \E now1 \in clock..MaxClock : \E now2 \in now1..MaxClock :
         LET r == stageResult(pc, c, note, md, cnt, calls, now1, now2)
         IN  /\ c' = r.c
             /\ note' = r.note
             /\ md' = r.md
             /\ (pc' = "panic") = r.panic]_vars

\* The notes of the two calls: one that converts, one whose body does not
\* render, one with an attachment that decodes, one with one that does not.
ConcNotes ==
  { PlainNote,
    [PlainNote EXCEPT !.Content = <<"W", "<table">>],
    [PlainNote EXCEPT !.Resources =
       <<[Data |-> "QQ==", Mime |-> "image/png", FileName |-> <<"a", ".png">>]>>],
    [PlainNote EXCEPT !.Resources =
       <<[Data |-> "Q!", Mime |-> "image/png", FileName |-> <<>>]>>] }

\* The Converter call p runs on.
ConverterOf(p) == IF shared THEN 1 ELSE p

\* The caller has made its Converters, one for both calls or one for each.
InitConc ==
  /\ InitSeq
  /\ shared \in BOOLEAN
  /\ \E flags \in FlagChoices :
       convs = [p \in Calls |-> NewConverter(<<>>, flags[1], flags[2], flags[3]).c]
  /\ pcs = [p \in Calls |-> "idle"]
  /\ notes = [p \in Calls |-> PlainNote]
  /\ mds = [p \in Calls |-> NewNote]

\* Call p enters Convert.
ConvertBegin(p) ==
  /\ pcs[p] = "idle"
  /\ \E n \in ConcNotes : notes' = [notes EXCEPT ![p] = n]
  /\ mds' = [mds EXCEPT ![p] = NewNote]
  /\ pcs' = [pcs EXCEPT ![p] = "mapResources"]
  /\ UNCHANGED <<seqVars, shared, convs>>

\* Call p runs its next stage, on the Converter it was given.  A stage is
\* one step and the two calls interleave stage by stage: on a shared
\* Converter the unsynchronized reads and writes of c.err take effect in
\* either order; calls with a Converter each have no field in common.
ConvertStep(p) ==
  /\ pcs[p] \notin {"idle", "return", "panic"}
  /\ LET conv == convs[ConverterOf(p)]
         r    == stageResult(pcs[p], conv, notes[p], mds[p], p - 1, p, clock, clock)
     IN  /\ convs' = [convs EXCEPT ![ConverterOf(p)] = r.c]
         /\ notes' = [notes EXCEPT ![p] = r.note]
         /\ mds' = [mds EXCEPT ![p] = r.md]
         /\ pcs' = [pcs EXCEPT ![p] = IF r.panic THEN "panic"
                                      ELSE stageAfter(pcs[p], conv.EnableFrontMatter)]
  /\ UNCHANGED <<seqVars, shared>>

NextConc == \E p \in Calls : ConvertBegin(p) \/ ConvertStep(p)

SpecConc == InitConc /\ [][NextConc]_vars

\* ================================================================== claims
Stages ==
  {"mapResources", "normalizeHTML", "toMarkdown", "prependTags", "prependTitle",
   "trimSpaces", "addDates", "addFrontMatter"}

\* The stages that come after mapResources.
LaterStages == Stages \ {"mapResources"}

\* Every attachment of n decodes.
Decodes(n) == \A i \in 1..Len(n.Resources) : Decode(n.Resources[i].Data).ok

\* The body of n renders (before or after the rewrite chain has run on it).
Renders(n) == \A i \in 1..Len(n.Content) : n.Content[i] # "<table"

\* The error the stages of call k make on note n: that of the first stage
\* that fails, or none.
OwnError(n, k) ==
  IF ~Decodes(n)
    THEN DecodeErr((CHOOSE i \in 1..Len(n.Resources) :
                      /\ ~Decode(n.Resources[i].Data).ok
                      /\ \A j \in 1..(i - 1) : Decode(n.Resources[j].Data).ok) - 1, k)
    ELSE IF ~Renders(n) THEN RenderErr(k) ELSE NoErr

\* C1: once a stage of the running call has set the sticky error, no later
\* stage of that call changes the document (content, resource index, dates);
\* in particular addFrontMatter prepends nothing.
C1_NoChangeAfterFailure ==
  [][(pc \in LaterStages /\ c.err # NoErr /\ c.err.call = calls) => md' = md]_vars

\* C2: a call on a note all of whose own stages succeed returns no error,
\* whatever happened to the notes converted before it on the same Converter.
C2_LaterNoteUnaffected ==
  (pc = "return" /\ Decodes(note) /\ Renders(note)) => c.err = NoErr

\* C3: the error a call returns is the error of the first stage that failed
\* in that call, and nil exactly when none of its stages failed.
C3_ReturnsOwnFirstError ==
  pc = "return" => c.err = OwnError(note, calls)

\* C4: the content of a document returned without error holds no run of
\* three or more newlines and ends with exactly one newline.
C4_NoTripleNewline ==
  (pc = "return" /\ c.err = NoErr) =>
    /\ MaxNewlineRun(md.Content) < 3
    /\ md.Content # <<>>
    /\ md.Content[Len(md.Content)] = NL
    /\ Len(md.Content) >= 2 => md.Content[Len(md.Content) - 1] # NL

\* The decoded contents of the attachments of n.
Contents(n) == {Decode(n.Resources[i].Data).bytes : i \in 1..Len(n.Resources)}

\* C5: after mapResources over attachments that all decode, the resource
\* index holds exactly one entry for each distinct decoded content: equal
\* bytes share one entry, different bytes have two, whatever their names.
C5_OneEntryPerContent ==
  (pc \in LaterStages \cup {"return", "panic"} /\ Decodes(note)) =>
    /\ Cardinality(DOMAIN md.Media) = Cardinality(Contents(note))
    /\ {md.Media[h].Content : h \in DOMAIN md.Media} = Contents(note)

\* Two attachments with the same bytes under two encodings share one entry.
C5_Witness ==
  /\ pc = "normalizeHTML"
  /\ Len(note.Resources) = 2
  /\ note.Resources[1].Data # note.Resources[2].Data
  /\ Decodes(note)
  /\ Cardinality(Contents(note)) = 1
  /\ Cardinality(DOMAIN md.Media) = 1

\* C6, as stated: NewConverter returns the configuration error exactly for
\* the templates that do not hold the token exactly once.
C6_RejectsAllButOneToken ==
  pc # "start" => (newErr = TagFormatErr <=> Count(tagTemplateArg, tagToken) # 1)

\* C6, amended: NewConverter returns the configuration error exactly for the
\* templates that are not empty and do not hold the token exactly once; the
\* empty template is replaced by the default one and accepted; the error is
\* decided at construction, and no stage of Convert changes it.
C6_RejectsNonEmptyAllButOneToken ==
  /\ pc # "start" =>
       /\ newErr = TagFormatErr <=>
            (tagTemplateArg # <<>> /\ Count(tagTemplateArg, tagToken) # 1)
       /\ newErr = TagFormatErr <=> pc = "configError"
       /\ newErr = NoConfigErr =>
            /\ c.TagTemplate =
                 (IF tagTemplateArg = <<>> THEN DefaultTagTemplate ELSE tagTemplateArg)
            /\ Count(c.TagTemplate, tagToken) = 1
  /\ pc \in Stages \cup {"return", "panic"} => newErr = NoConfigErr

\* A template with the token twice has been refused.
C6_Witness ==
  /\ pc = "configError"
  /\ Count(tagTemplateArg, tagToken) = 2
  /\ newErr = TagFormatErr

C8_NoPanic == pc # "panic"

\* The position of the closing dash delimiter of a header, 0 without one.
HeaderEnd(content) ==
  IF \E j \in 2..Len(content) : content[j] = "---"
    THEN CHOOSE j \in 2..Len(content) :
           content[j] = "---" /\ \A k \in 2..(j - 1) : content[k] # "---"
    ELSE 0

\* The header of a document: from the opening to the closing dash delimiter.
Header(content) == SubSeq(content, 1, HeaderEnd(content))

\* The header holds a line that starts with key.
HasLine(h, key) == \E i \in 1..(Len(h) - 1) : h[i] = NL /\ h[i + 1] = key

\* The number of newlines in a text.
Newlines(t) == Cardinality({i \in 1..Len(t) : t[i] = NL})

\* The optional fields of a note that are not empty, the tag list among them.
FieldsPresent(n) ==
  {f \in {"SourceUrl", "Latitude", "Longitude", "Altitude", "Source"} : n.Attributes[f] # <<>>}
  \cup (IF n.Tags # <<>> THEN {"Tags"} ELSE {})

\* No tag and no attribute of the note holds a newline.
FieldsOnOneLine(n) ==
  /\ \A i \in 1..Len(n.Tags) : Newlines(n.Tags[i]) = 0
  /\ \A f \in DOMAIN n.Attributes : Newlines(n.Attributes[f]) = 0

\* C9: with the default template the header lies between two dash
\* delimiters, always holds the date, updated_at and title lines, and holds
\* the url, latitude, longitude, altitude, source and tags line exactly when
\* the field is not empty; an empty field adds no line, blank or other.
C9_OptionalLines ==
  (pc = "return" /\ c.EnableFrontMatter) =>
    LET h == Header(md.Content)
    IN  /\ HeaderEnd(md.Content) > 1
        /\ h[1] = "---"
        /\ HasLine(h, "date: '")
        /\ HasLine(h, "updated_at: '")
        /\ HasLine(h, "title: ")
        /\ HasLine(h, "tags: [ ") <=> note.Tags # <<>>
        /\ HasLine(h, "url: ") <=> note.Attributes.SourceUrl # <<>>
        /\ HasLine(h, "latitude: ") <=> note.Attributes.Latitude # <<>>
        /\ HasLine(h, "longitude: ") <=> note.Attributes.Longitude # <<>>
        /\ HasLine(h, "altitude: ") <=> note.Attributes.Altitude # <<>>
        /\ HasLine(h, "source: ") <=> note.Attributes.Source # <<>>
        /\ FieldsOnOneLine(note) =>
             Newlines(h) = 3 + Cardinality(FieldsPresent(note)) + 2

\* A header with a url and a source line and no latitude, longitude,
\* altitude or tags line.
C9_Witness ==
  /\ pc = "return"
  /\ c.EnableFrontMatter
  /\ note.Attributes.SourceUrl # <<>>
  /\ note.Attributes.Source # <<>>
  /\ note.Attributes.Latitude = <<>>
  /\ note.Attributes.Longitude = <<>>
  /\ note.Attributes.Altitude = <<>>
  /\ note.Tags = <<>>
  /\ HasLine(Header(md.Content), "url: ")
  /\ ~HasLine(Header(md.Content), "latitude: ")

\* C10: a document returned without error is the front matter (if enabled),
\* rendered from the dates of the dates stage and left as rendered, followed
\* by the whitespace-normalized concatenation of the title heading and a
\* blank line, the rendered tag list and the rendered body.
C10_StageOrder ==
  (pc = "return" /\ c.err = NoErr) =>
    /\ IF ParseTime(note.Created).ok
         THEN md.CTime = ParseTime(note.Created).t ELSE md.CTime \in ClockStart..clock
    /\ IF ParseTime(note.Updated).ok
         THEN md.MTime = ParseTime(note.Updated).t ELSE md.MTime \in ClockStart..clock
    /\ md.Content =
         (IF c.EnableFrontMatter
            THEN ExecuteFrontMatter(frontMatterData(note, md)) ELSE <<>>)
         \o trimSpacesResult(
              <<"# ">> \o note.Title \o <<NL, NL>>
              \o tagList(note, c.TagTemplate, <<" ">>, TRUE)
              \o MarkdownConvert(note.Content, c.EnableHighlights, c.EscapeSpecialChars).bytes)

\* A note with a title, a tag and a body that need normalizing has been
\* converted with front matter.
C10_Witness ==
  /\ pc = "return"
  /\ c.err = NoErr
  /\ c.EnableFrontMatter
  /\ note.Tags # <<>>
  /\ MaxNewlineRun(note.Title) >= 3
  /\ Len(note.Content) > 1
  /\ md.Content[1] = "---"

\* ---------------------------------------------------- the resource index
\* The attachments of n gone through by mapResources, counted from 0: all of
\* them before the first that does not decode.
Processed(n) ==
  { i \in 0..(Len(n.Resources) - 1) :
      \A j \in 0..i : Decode(n.Resources[j + 1].Data).ok }

\* The attachments gone through whose decoded bytes are p.
Carriers(n, p) == { i \in Processed(n) : Decode(n.Resources[i + 1].Data).bytes = p }

Least(S) == CHOOSE i \in S : \A j \in S : i <= j

Greatest(S) == CHOOSE i \in S : \A j \in S : i >= j

\* The stages of mapResources are over: md.Media is what the call returns.
Mapped == pc \in LaterStages \cup {"return"}

\* C11: after mapResources every entry of the index still carries the
\* filename assigned to the first attachment with its content; a later
\* attachment with the same content leaves the entry untouched.
C11_FirstEntryKept ==
  Mapped =>
    \A h \in DOMAIN md.Media :
      LET first == Least(Carriers(note, md.Media[h].Content))
      IN  /\ md.Media[h].Name =
               <<ToString(cnt), "_", ToString(first)>> \o name(note.Resources[first + 1])[2]
          /\ md.Media[h].Type =
               (IF isImage(note.Resources[first + 1].Mime) THEN "Image" ELSE "File")

\* The display names mapResources computes for the attachments of n, in
\* source order, each with its extension.
DisplayNames(n) ==
  LET d == mapResourcesResult(NoErr, n.Resources, EmptyMap, 0, 0).display
  IN  [i \in 1..Len(d) |-> d[i] \o name(n.Resources[i])[2]]

\* The declared name of attachment i of n, with its extension.
DeclaredName(n, i) == name(n.Resources[i])[1] \o name(n.Resources[i])[2]

\* The attachments of n before i that declare the name attachment i declares.
Earlier(n, i) == { j \in 1..(i - 1) : DeclaredName(n, j) = DeclaredName(n, i) }

\* C12: the display names of a note's attachments are pairwise distinct; a
\* first occurrence keeps its name, a repeat gets the number of earlier
\* occurrences as suffix, and a suffixed name is the name of no other
\* attachment.
C12_DisplayNamesDistinct ==
  (Mapped /\ Decodes(note)) =>
    LET d == DisplayNames(note)
    IN  /\ \A i, j \in 1..Len(d) : i # j => d[i] # d[j]
        /\ \A i \in 1..Len(d) :
             IF Earlier(note, i) = {}
             THEN d[i] = DeclaredName(note, i)
             ELSE /\ d[i] = name(note.Resources[i])[1]
                              \o <<"-", ToString(Cardinality(Earlier(note, i)))>>
                              \o name(note.Resources[i])[2]
                  /\ \A j \in 1..Len(d) : j # i => d[i] # DeclaredName(note, j)

\* Attachments i < j of n declare the same name and carry different content.
NameClash(n, i, j) ==
  /\ i < j
  /\ DeclaredName(n, i) = DeclaredName(n, j)
  /\ Decode(n.Resources[i].Data).bytes # Decode(n.Resources[j].Data).bytes

\* The entry of the index that holds content p.
EntryOf(p) == md.Media[CHOOSE h \in DOMAIN md.Media : md.Media[h].Content = p]

\* The name nm, extension included, ends in the suffix of a first repeat.
CarriesSuffix(nm) ==
  /\ Len(nm) >= 3
  /\ SubSeq(nm, Len(nm) - 2, Len(nm) - 1) = <<"-", "1">>

\* C13: two attachments of one name and different content make two entries,
\* and the name recorded in the second's entry carries the numeric suffix
\* of its display name while the name recorded in the first's carries none.
C13_SuffixRecorded ==
  (Mapped /\ Decodes(note) /\ Len(note.Resources) = 2 /\ NameClash(note, 1, 2)) =>
    LET p == [i \in 1..2 |-> Decode(note.Resources[i].Data).bytes]
        d == DisplayNames(note)
    IN  /\ Cardinality(DOMAIN md.Media) = 2
        /\ \A i \in 1..2 : \E h \in DOMAIN md.Media : md.Media[h].Content = p[i]
        /\ ~CarriesSuffix(d[1])
        /\ CarriesSuffix(d[2])
        /\ ~CarriesSuffix(EntryOf(p[1]).Name)
        /\ CarriesSuffix(EntryOf(p[2]).Name)

\* The extensions the attachments of the model come with.
Extensions == { name(r)[2] : r \in Attachments }

\* C14: every entry of the index written by Convert(note, cnt) is stored
\* with the filename cnt, "_", i, ext of the attachment i that wrote it;
\* the filenames of one index are pairwise distinct, and none is a filename
\* a call with another cnt writes.
C14_StoredNames ==
  Mapped =>
    /\ \A h \in DOMAIN md.Media :
         LET i == Greatest(Carriers(note, md.Media[h].Content))
         IN  md.Media[h].Name =
               <<ToString(cnt), "_", ToString(i)>> \o name(note.Resources[i + 1])[2]
    /\ \A g, h \in DOMAIN md.Media : g # h => md.Media[g].Name # md.Media[h].Name
    /\ \A h \in DOMAIN md.Media : \A k \in Counters \ {cnt} :
         \A i \in 0..MaxRes : \A e \in Extensions :
           md.Media[h].Name # <<ToString(k), "_", ToString(i)>> \o e

\* A second call, with cnt 1, returns an index of two entries.
C14_Witness ==
  /\ pc = "return"
  /\ calls = 2
  /\ cnt = 1
  /\ Cardinality(DOMAIN md.Media) = 2
  /\ \A h \in DOMAIN md.Media : md.Media[h].Name[1] = "1"

\* The first attachment of n, counted from 0, that does not decode.
FirstFailure(n) == Cardinality(Processed(n))

\* C15: a decode failure at attachment k makes the call return that decode
\* error with nothing in the document: no entry of an attachment from k on,
\* no entry of an attachment before k either, and no later stage run.
C15_DecodeFailureStops ==
  (pc = "return" /\ ~Decodes(note)) =>
    /\ c.err = DecodeErr(FirstFailure(note), calls)
    /\ \A h \in DOMAIN md.Media : Carriers(note, md.Media[h].Content) # {}
    /\ md.Content = <<>>
    /\ md.CTime = 0
    /\ md.MTime = 0
    /\ md.Media = EmptyMap

\* C16: with a Converter of its own every concurrent call returns the error
\* of its own stages, and a call none of whose stages fails has run them
\* all; on a shared Converter a call can return the other call's error.
C16_OwnConverterSafe ==
  ~shared =>
    \A p \in Calls :
      pcs[p] = "return" =>
        /\ convs[p].err = OwnError(notes[p], p)
        /\ OwnError(notes[p], p) = NoErr =>
             /\ \E i \in 1..Len(mds[p].Content) : mds[p].Content[i] = "# "
             /\ mds[p].CTime # 0
             /\ mds[p].MTime # 0
             /\ Len(notes[p].Resources) = Cardinality(DOMAIN mds[p].Media)

\* On a shared Converter a call none of whose stages fails returns the
\* error of the other call, its own stages skipped, while the other call is
\* still running.
C16_Witness ==
  /\ shared
  /\ \E p \in Calls :
       /\ pcs[p] = "return"
       /\ \E q \in Calls \ {p} : pcs[q] \in Stages
       /\ OwnError(notes[p], p) = NoErr
       /\ convs[1].err # NoErr
       /\ convs[1].err.call # p
       /\ ~convs[1].EnableFrontMatter
       /\ mds[p].Content = <<>>

\* The index mapResources holds after j turns of its loop, seen from the
\* state it starts in.
IndexDuring(j) ==
  mapResourcesResult(c.err, SubSeq(note.Resources, 1, j), md.Media, cnt, calls).Media

\* Index media is in order after j attachments of n: every entry under the
\* digest of its content, of the kind its writer's MIME type gives, and no
\* more entries than attachments.
WellFormed(media, n, j) ==
  /\ \A h \in DOMAIN media :
       LET writer == Greatest({ i \in Carriers(n, media[h].Content) : i < j })
       IN  /\ h = Md5Hex(media[h].Content)
           /\ media[h].Type \in {"Image", "File"}
           /\ media[h].Type = "Image" <=> isImage(n.Resources[writer + 1].Mime)
  /\ Cardinality(DOMAIN media) <= j

\* C17: after every turn of the loop of mapResources, and in every state
\* after it, each entry of the index is stored under the digest of its
\* content, is an Image exactly when its writer's MIME type is an image
\* type, and the entries are no more than the attachments gone through.
C17_IndexWellFormed ==
  /\ pc = "mapResources" =>
       \A j \in 0..FirstFailure(note) : WellFormed(IndexDuring(j), note, j)
  /\ Mapped => WellFormed(md.Media, note, FirstFailure(note))

\* Two attachments of one content, an image and then a file, have left one
\* entry, a File.
C17_Witness ==
  /\ pc = "return"
  /\ Decodes(note)
  /\ Len(note.Resources) = 2
  /\ isImage(note.Resources[1].Mime)
  /\ ~isImage(note.Resources[2].Mime)
  /\ Cardinality(DOMAIN md.Media) = 1
  /\ \A h \in DOMAIN md.Media : md.Media[h].Type = "File"

====
